---- MODULE Spec2Model ----
(***************************************************************************)
(* Scan coordination of scAnt-tui: three StepperMotor widgets              *)
(* (scripts/stepper_motor.py), the ScanManager that sequences them         *)
(* (scripts/scan.py) and the queues between them.                          *)
(*                                                                         *)
(* Every callback of the program is a synchronous function run by the      *)
(* Textual event loop, so each one is an atomic action; the callbacks of   *)
(* different widgets (the 0.1 s interval timers of each stepper and of the *)
(* scan manager) interleave in any order.                                  *)
(*                                                                         *)
(* The numeric strings the widgets hold (min_position, max_position,       *)
(* divisions) are modelled as the integers they denote.                    *)
(***************************************************************************)
EXTENDS Integers, Sequences, FiniteSets, TLC

-----------------------------------------------------------------------------
(* Bounds of the model *)

\* min_position configured on every stepper
MinPos == 1
\* max_position configured on every stepper
MaxPos == 2
\* "divisions" configured on the steppers: one of these triples
DivisionChoices == {<<2, 2, 2>>, <<2, 2, 1>>}
\* number of times "Start Full Scan" is pressed in one behaviour
MaxScans == 1
\* capacity of scan_manager_queue in the model (the real queue is unbounded)
MaxQueue == 2
\* number of TAKE_PHOTO requests not yet taken by the camera that the model
\* counts; beyond it the count stays
MaxPending == 1
\* inputs of get_division_positions explored by SpecPositions: -PosRange..PosRange
PosRange == 4
\* largest division count explored by SpecPositions
MaxDivisions == 6

-----------------------------------------------------------------------------
(* utils.py *)

IDLE == "IDLE"
MOVING == "MOVING"
WAITING == "WAITING"
ScanState == {IDLE, MOVING, WAITING}

get_axes == <<"Forward", "Tilt", "Yaw">>

Steppers == 1..3

-----------------------------------------------------------------------------
(* StepperMotor: pure helpers.  "self" is the record of one stepper. *)

\* int(a / b) for b > 0: Python's int() truncates toward zero
TruncDiv(a, b) == IF a >= 0 THEN a \div b ELSE -((-a) \div b)

\* Variants of get_division_positions, each with one plausible slip.
\*   the step rounded to the nearest integer, as the source's comment says
get_division_positions_rounded(self) ==
    LET min_pos == self.min_position
        max_pos == self.max_position
        div_count == self.divisions
    IN  IF self.blank # {}
        THEN <<>>
        ELSE IF div_count < 2
        THEN <<min_pos, max_pos>>
        ELSE LET span == max_pos - min_pos
                 step == IF span >= 0
                         THEN ((2 * span) + (div_count - 1)) \div (2 * (div_count - 1))
                         ELSE -((((-2) * span) + (div_count - 1)) \div (2 * (div_count - 1)))
             IN  [i \in 1..div_count |-> min_pos + ((i - 1) * step)]
\*   the last element forced to max_pos
get_division_positions_renormalised(self) ==
    LET min_pos == self.min_position
        max_pos == self.max_position
        div_count == self.divisions
    IN  IF self.blank # {}
        THEN <<>>
        ELSE IF div_count < 2
        THEN <<min_pos, max_pos>>
        ELSE LET step == TruncDiv(max_pos - min_pos, div_count - 1)
             IN  [i \in 1..div_count |->
                     IF i = div_count THEN max_pos ELSE min_pos + ((i - 1) * step)]
\*   a single stop for a degenerate division count
get_division_positions_single(self) ==
    LET min_pos == self.min_position
        max_pos == self.max_position
        div_count == self.divisions
    IN  IF self.blank # {}
        THEN <<>>
        ELSE IF div_count < 2
        THEN <<min_pos>>
        ELSE LET step == TruncDiv(max_pos - min_pos, div_count - 1)
             IN  [i \in 1..div_count |-> min_pos + ((i - 1) * step)]
\*   each position interpolated on its own: int(min + i * (max - min) / (n - 1))
get_division_positions_interpolated(self) ==
    LET min_pos == self.min_position
        max_pos == self.max_position
        div_count == self.divisions
    IN  IF self.blank # {}
        THEN <<>>
        ELSE IF div_count < 2
        THEN <<min_pos, max_pos>>
        ELSE [i \in 1..div_count |->
                 min_pos + TruncDiv((i - 1) * (max_pos - min_pos), div_count - 1)]

get_division_positions(self) ==
    LET min_pos == self.min_position
        max_pos == self.max_position
        div_count == self.divisions
    IN  IF self.blank # {}
        THEN <<>>
        ELSE IF div_count < 2
        THEN <<min_pos, max_pos>>
        ELSE LET step == TruncDiv(max_pos - min_pos, div_count - 1)
             IN  [i \in 1..div_count |-> min_pos + ((i - 1) * step)]

\* A variant of validate_scan_parameters that accepts divisions = 0.
validate_scan_parameters_nonnegative(self) ==
    /\ self.blank = {}
    /\ self.energized
    /\ self.initialized
    /\ self.divisions >= 0
    /\ self.max_position > self.min_position

validate_scan_parameters(self) ==
    /\ self.blank = {}
    /\ self.energized
    /\ self.initialized
    /\ self.divisions > 0
    /\ self.max_position > self.min_position

\* The positions the motor can be found at by the next read of the Tic: it
\* travels from where it was last seen toward the target the Tic holds.
TicPositions(self) ==
    IF self.energized /\ self.initialized
    THEN IF self.tic_position <= self.tic_target
         THEN self.tic_position .. self.tic_target
         ELSE self.tic_target .. self.tic_position
    ELSE {self.tic_position}

-----------------------------------------------------------------------------
(* StepperMotor: operations on one stepper, as functions of its record.    *)
(* current_pos is what tic.get_current_position() returns in the call.     *)

\* A variant of stop_scan that leaves the division index where it is.
stop_scan_keeps_division(self, current_pos) ==
    LET halted == IF self.initialized /\ self.energized
                  THEN [self EXCEPT !.tic_position = current_pos,
                                    !.tic_target = current_pos,
                                    !.target_position = current_pos]
                  ELSE self
    IN  [halted EXCEPT !.wait_timer = FALSE, !.scan_state = IDLE]

stop_scan(self, current_pos) ==
    LET halted == IF self.initialized /\ self.energized
                  THEN [self EXCEPT !.tic_position = current_pos,
                                    !.tic_target = current_pos,
                                    !.target_position = current_pos]
                  ELSE self
    IN  [halted EXCEPT !.wait_timer = FALSE, !.scan_state = IDLE, !.current_division = 0]

\* A variant of continue_scan without the check of the scan state.
continue_scan_unguarded(self, current_pos) ==
    LET positions == get_division_positions(self)
        advanced == [self EXCEPT !.current_division = @ + 1]
    IN  IF advanced.current_division >= Len(positions)
        THEN stop_scan(advanced, current_pos)
        ELSE [advanced EXCEPT
                !.target_position = positions[advanced.current_division + 1],
                !.scan_state = MOVING]

\* A variant of continue_scan that ends the scan one division early
\* (current_division >= len(positions) - 1).
continue_scan_early(self, current_pos) ==
    IF self.scan_state # WAITING
    THEN self
    ELSE LET positions == get_division_positions(self)
             advanced == [self EXCEPT !.current_division = @ + 1]
         IN  IF advanced.current_division >= Len(positions) - 1
             THEN stop_scan(advanced, current_pos)
             ELSE [advanced EXCEPT
                     !.target_position = positions[advanced.current_division + 1],
                     !.scan_state = MOVING]

continue_scan(self, current_pos) ==
    IF self.scan_state # WAITING
    THEN self
    ELSE LET positions == get_division_positions(self)
             advanced == [self EXCEPT !.current_division = @ + 1]
         IN  IF advanced.current_division >= Len(positions)
             THEN stop_scan(advanced, current_pos)
             ELSE [advanced EXCEPT
                     !.target_position = positions[advanced.current_division + 1],
                     !.scan_state = MOVING]

\* A variant of start_scan that keeps the division index it finds.
start_scan_keeps_division(self) ==
    IF ~validate_scan_parameters(self)
    THEN self
    ELSE LET positions == get_division_positions(self)
         IN  IF positions = <<>>
             THEN self
             ELSE [self EXCEPT !.target_position = positions[1],
                               !.scan_state = MOVING]

start_scan(self) ==
    IF ~validate_scan_parameters(self)
    THEN self
    ELSE LET positions == get_division_positions(self)
         IN  IF positions = <<>>
             THEN self
             ELSE [self EXCEPT !.current_division = 0,
                               !.target_position = positions[1],
                               !.scan_state = MOVING]

move_to_position(self, position) ==
    IF ~self.energized \/ ~self.initialized
    THEN self
    ELSE [self EXCEPT !.target_position = position, !.scan_state = MOVING]

\* A variant of zero_stepper without the check that the stepper is initialized.
zero_stepper_unguarded(self, current_pos) ==
    LET stopped == IF self.scan_state # IDLE
                   THEN stop_scan(self, current_pos)
                   ELSE self
    IN  [stopped EXCEPT !.tic_position = 0,
                        !.tic_target = 0,
                        !.current_position = 0,
                        !.target_position = 0]

\* A variant of zero_stepper that does not stop a running scan first.
zero_stepper_keeps_scan(self, current_pos) ==
    IF ~self.initialized
    THEN self
    ELSE [self EXCEPT !.tic_position = 0,
                      !.tic_target = 0,
                      !.current_position = 0,
                      !.target_position = 0]

\* zero_stepper: tic.halt_and_set_position(0) makes the place the motor
\* stands at position 0 and leaves it halted there.
zero_stepper(self, current_pos) ==
    IF ~self.initialized
    THEN self
    ELSE LET stopped == IF self.scan_state # IDLE
                        THEN stop_scan(self, current_pos)
                        ELSE self
         IN  [stopped EXCEPT !.tic_position = 0,
                             !.tic_target = 0,
                             !.current_position = 0,
                             !.target_position = 0]

\* on_input_changed: event = <<event.input.id, the number in event.value>>
on_input_changed(self, event) ==
    IF event[1] = "divisions_stepper"
    THEN [self EXCEPT !.divisions = event[2]]
    ELSE IF event[1] = "min_position_stepper"
    THEN [self EXCEPT !.min_position = event[2]]
    ELSE IF event[1] = "max_position_stepper"
    THEN [self EXCEPT !.max_position = event[2]]
    ELSE self

\* update_control_states: the three position inputs are disabled
position_controls_disabled(self) == ~self.initialized \/ self.scan_state # IDLE

\* POSITION_TOLERANCE = 0.05, in percent
POSITION_TOLERANCE_PERCENT == 5

Abs(x) == IF x >= 0 THEN x ELSE -x

\* A variant of is_position_reached whose tolerance is rounded to the nearest
\* integer instead of truncated.
is_position_reached_rounded(self) ==
    IF ~self.energized \/ ~self.initialized
    THEN FALSE
    ELSE LET current_pos == self.current_position
             target_pos == self.target_position
             tolerance == (Abs(target_pos * POSITION_TOLERANCE_PERCENT) + 50) \div 100
         IN  Abs(current_pos - target_pos) <= tolerance

\* tolerance = abs(int(target_pos * POSITION_TOLERANCE)).  self.tic is set
\* exactly while the stepper is initialized.
is_position_reached(self) ==
    IF ~self.energized \/ ~self.initialized
    THEN FALSE
    ELSE LET current_pos == self.current_position
             target_pos == self.target_position
             tolerance == Abs(TruncDiv(target_pos * POSITION_TOLERANCE_PERCENT, 100))
         IN  Abs(current_pos - target_pos) <= tolerance

-----------------------------------------------------------------------------
(* State *)

VARIABLES
    stepper,             \* stepper[n]: the fields of StepperMotor number n
    scanning,            \* ScanManager.scanning
    stepper_statuses,    \* ScanManager.stepper_statuses
    start_disabled,      \* the "Start Full Scan" button's disabled flag
    scan_manager_queue,  \* STATUS messages from the steppers to the ScanManager
    pq_running,          \* process_queue is between two messages of one drain
    camera_photo_queue,  \* TAKE_PHOTO requests: the last one put, the parity of the
                         \* number put, and how many the camera has yet to take
    coverage,            \* history: the division triples photographed in this scan
    scan_complete,       \* history: handle_scan_sequence logged "Scan sequence complete"
    scans_started,       \* history: number of start_full_scan calls
    pf,                  \* get_division_positions applied to a free input (SpecPositions)
    call                 \* history: the last method called on stepper 1 (SpecAxis,
                         \* SpecReached)

vars == <<stepper, scanning, stepper_statuses, start_disabled, scan_manager_queue,
          pq_running, camera_photo_queue, coverage, scan_complete, scans_started, pf,
          call>>

\* stepper_statuses.get(n) is None
NoStatus == [stepper_num |-> 0, scan_state |-> "NONE",
             current_division |-> 0, total_divisions |-> 0]

\* The StepperStatus a stepper reports.  Of its fields only the ones
\* handle_scan_sequence reads are kept (axis, current_position and
\* target_position are never read by the ScanManager).
StepperStatus(self) ==
    [stepper_num |-> self.stepper_num,
     scan_state |-> self.scan_state,
     current_division |-> self.current_division,
     total_divisions |-> Len(get_division_positions(self))]

\* A stepper after "On" and "Energize": position 0, nothing scanned yet.
\* input_changed is the Input.Changed message on its way to the stepper
\* (<<>> if none).
ReadyStepper(n, d) ==
    [stepper_num |-> n,
     axis |-> get_axes[n],
     scan_state |-> IDLE,
     current_division |-> 0,
     current_position |-> 0,
     target_position |-> 0,
     tic_position |-> 0,
     tic_target |-> 0,
     min_position |-> MinPos,
     max_position |-> MaxPos,
     divisions |-> d,
     blank |-> {},
     wait_timer |-> FALSE,
     input_changed |-> <<>>,
     energized |-> TRUE,
     initialized |-> TRUE]

\* camera_photo_queue.put(message)
PhotoPut(queue, message) ==
    [queue EXCEPT !.last = message,
                  !.odd = ~queue.odd,
                  !.pending = IF @ < MaxPending THEN @ + 1 ELSE @]

NoPhoto == [message_type |-> "NONE", position |-> 0, axis |-> ""]

\* camera_photo_queue with nothing put yet.  "pending" counts the requests
\* the camera has not taken yet (up to MaxPending); "available" is FALSE when
\* the stepper was given no usable queue, so that put raises.
NoPhotos == [last |-> NoPhoto, odd |-> FALSE, pending |-> 0, available |-> TRUE]

\* The division triples of a full scan, and the k-th of them (k from 0) when
\* stepper 1 cycles fastest and stepper 3 slowest.
Lengths(motors) == [n \in Steppers |-> Len(get_division_positions(motors[n]))]
AllTriples(motors) ==
    {t \in [Steppers -> 0..(MaxPos + 1)] : \A n \in Steppers : t[n] < Lengths(motors)[n]}
NestedTriple(motors, k) ==
    LET len == Lengths(motors)
    IN  [n \in Steppers |->
            IF n = 1 THEN k % len[1]
            ELSE IF n = 2 THEN (k \div len[1]) % len[2]
            ELSE k \div (len[1] * len[2])]

\* The history of photo requests of one scan: the triples requested, whether
\* one was requested twice (then nothing more is recorded), and whether they
\* came in nested order.
NoCoverage == [seen |-> {}, dup |-> FALSE, ordered |-> TRUE]
Covered(cov, motors) ==
    LET triple == [n \in Steppers |-> motors[n].current_division]
    IN  IF cov.dup \/ triple \in cov.seen
        THEN [seen |-> {}, dup |-> TRUE, ordered |-> FALSE]
        ELSE [seen |-> cov.seen \cup {triple},
              dup |-> FALSE,
              ordered |-> cov.ordered /\ triple = NestedTriple(motors, Cardinality(cov.seen))]

\* No method has been called yet.  "result" is what the call returned (FALSE
\* if nothing), "run" follows the scan of the stepper: "none", "running" after
\* a start_scan that started, "done" once continue_scan has ended it,
\* "aborted" once stop_scan was called.
NoCall == [method |-> "none", result |-> FALSE, run |-> "none"]

PfIdle == [min_position |-> 0, max_position |-> 0, divisions |-> 0, blank |-> {},
           result |-> <<>>, done |-> FALSE]

Init ==
    /\ \E d \in DivisionChoices :
           stepper = [n \in Steppers |-> ReadyStepper(n, d[n])]
    /\ scanning = FALSE
    /\ stepper_statuses = [n \in Steppers |-> NoStatus]
    /\ start_disabled = FALSE
    /\ scan_manager_queue = <<>>
    /\ pq_running = FALSE
    /\ camera_photo_queue = NoPhotos
    /\ coverage = NoCoverage
    /\ scan_complete = FALSE
    /\ scans_started = 0
    /\ pf = PfIdle
    /\ call = NoCall

-----------------------------------------------------------------------------
(* StepperMotor: the interval callbacks *)

\* update_scan_state: the tick moves the stepper from MOVING to WAITING
position_reached_in_tick(self) ==
    /\ self.scan_state = MOVING
    /\ self.current_position = self.target_position

\* A variant of requests_photo that is level-triggered: a request on every
\* tick that finds stepper 1 arrived.
requests_photo_while_waiting(self) ==
    /\ \/ position_reached_in_tick(self)
       \/ self.scan_state = WAITING
    /\ self.stepper_num = 1

\* A variant of requests_photo bound to the axis name instead of the stepper
\* number: the stepper that is assigned the Forward axis requests the photo.
requests_photo_forward_axis(self) ==
    /\ position_reached_in_tick(self)
    /\ self.axis = get_axes[1]

\* A variant of requests_photo that requests the photo one tick late: on the
\* ticks that find stepper 1 already WAITING.
requests_photo_after_settle(self) ==
    /\ self.scan_state = WAITING
    /\ self.stepper_num = 1

\* update_scan_state: the tick puts a TAKE_PHOTO request (the put raises, and
\* the tick logs "Failed to request photo", when the queue is not available)
requests_photo(self) ==
    /\ position_reached_in_tick(self)
    /\ self.stepper_num = 1

\* A variant of update_scan_state that puts the request before it changes the
\* state, so that a put that raises leaves the stepper MOVING.
update_scan_state_put_first(n) ==
    LET self == stepper[n]
        after == IF /\ position_reached_in_tick(self)
                    /\ (requests_photo(self) => camera_photo_queue.available)
                 THEN [stepper EXCEPT ![n].scan_state = WAITING]
                 ELSE stepper
    IN  /\ ~pq_running
        /\ self.scan_state # IDLE
        /\ Len(scan_manager_queue) < MaxQueue
        /\ scan_manager_queue' = Append(scan_manager_queue, StepperStatus(self))
        /\ stepper' = after
        /\ IF requests_photo(self) /\ camera_photo_queue.available
           THEN /\ camera_photo_queue' =
                       PhotoPut(camera_photo_queue,
                                [message_type |-> "TAKE_PHOTO",
                                 position |-> self.current_position,
                                 axis |-> self.axis])
                /\ coverage' = Covered(coverage, after)
           ELSE UNCHANGED <<camera_photo_queue, coverage>>
        /\ UNCHANGED <<scanning, stepper_statuses, start_disabled, pq_running,
                       scan_complete, scans_started, pf, call>>

\* A variant of update_scan_state in which the tick itself ends the wait
\* (what finish_waiting does in main.py): a WAITING stepper goes on to its
\* next division.
update_scan_state_finish_waiting(n) ==
    LET self == stepper[n]
        after == IF position_reached_in_tick(self)
                 THEN [stepper EXCEPT ![n].scan_state = WAITING]
                 ELSE IF self.scan_state = WAITING
                 THEN [stepper EXCEPT ![n] = continue_scan(@, self.current_position)]
                 ELSE stepper
    IN  /\ ~pq_running
        /\ self.scan_state # IDLE
        /\ Len(scan_manager_queue) < MaxQueue
        /\ scan_manager_queue' = Append(scan_manager_queue, StepperStatus(self))
        /\ stepper' = after
        /\ IF requests_photo(self) /\ camera_photo_queue.available
           THEN /\ camera_photo_queue' =
                       PhotoPut(camera_photo_queue,
                                [message_type |-> "TAKE_PHOTO",
                                 position |-> self.current_position,
                                 axis |-> self.axis])
                /\ coverage' = Covered(coverage, after)
           ELSE UNCHANGED <<camera_photo_queue, coverage>>
        /\ UNCHANGED <<scanning, stepper_statuses, start_disabled, pq_running,
                       scan_complete, scans_started, pf, call>>

update_scan_state(n) ==
    LET self == stepper[n]
        after == IF position_reached_in_tick(self)
                 THEN [stepper EXCEPT ![n].scan_state = WAITING]
                 ELSE stepper
    IN  /\ ~pq_running
        /\ self.scan_state # IDLE
        /\ Len(scan_manager_queue) < MaxQueue
        /\ scan_manager_queue' = Append(scan_manager_queue, StepperStatus(self))
        /\ stepper' = after
        /\ IF requests_photo(self) /\ camera_photo_queue.available
           THEN /\ camera_photo_queue' =
                       PhotoPut(camera_photo_queue,
                                [message_type |-> "TAKE_PHOTO",
                                 position |-> self.current_position,
                                 axis |-> self.axis])
                /\ coverage' = Covered(coverage, after)
           ELSE UNCHANGED <<camera_photo_queue, coverage>>
        /\ UNCHANGED <<scanning, stepper_statuses, start_disabled, pq_running,
                       scan_complete, scans_started, pf, call>>

\* watch_current_position: read the motor's position from the Tic
watch_current_position(n) ==
    LET self == stepper[n]
    IN  /\ ~pq_running
        /\ self.initialized /\ self.energized
        /\ \E p \in TicPositions(self) :
               stepper' = [stepper EXCEPT ![n].current_position = p,
                                          ![n].tic_position = p]
        /\ UNCHANGED <<scanning, stepper_statuses, start_disabled, scan_manager_queue,
                       pq_running, camera_photo_queue, coverage, scan_complete, scans_started, pf, call>>

\* watch_target_position: send the target to the Tic.  (Its min/max update
\* needs a position display without a number in it, which never happens:
\* the displays start at 0.)
watch_target_position(n) ==
    LET self == stepper[n]
    IN  /\ ~pq_running
        /\ self.initialized /\ self.energized
        /\ stepper' = [stepper EXCEPT ![n].tic_target = self.target_position]
        /\ UNCHANGED <<scanning, stepper_statuses, start_disabled, scan_manager_queue,
                       pq_running, camera_photo_queue, coverage, scan_complete, scans_started, pf, call>>

\* update_energized: the Energize / Deenergize button, enabled while the
\* stepper is initialized.  Energizing sets the Tic's position to
\* current_position and leaves it halted there.
update_energized(n) ==
    LET self == stepper[n]
    IN  /\ ~pq_running
        /\ self.initialized
        /\ stepper' = IF self.energized
                      THEN [stepper EXCEPT ![n].energized = FALSE]
                      ELSE [stepper EXCEPT ![n].energized = TRUE,
                                           ![n].tic_position = self.current_position,
                                           ![n].tic_target = self.current_position]
        /\ UNCHANGED <<scanning, stepper_statuses, start_disabled, scan_manager_queue,
                       pq_running, camera_photo_queue, coverage, scan_complete,
                       scans_started, pf, call>>

\* update_initialized: the On / Off button.  It connects to the Tic or drops
\* the connection; the motor keeps its position and target, and the stepper
\* its scan state and energized flag.
update_initialized(n) ==
    /\ ~pq_running
    /\ stepper' = [stepper EXCEPT ![n].initialized = ~@]
    /\ UNCHANGED <<scanning, stepper_statuses, start_disabled, scan_manager_queue,
                   pq_running, camera_photo_queue, coverage, scan_complete,
                   scans_started, pf, call>>

-----------------------------------------------------------------------------
(* ScanManager *)

\* move_stepper(stepper_num): division is None
move_stepper_next(self, current_pos) == continue_scan(self, current_pos)

\* move_stepper(stepper_num, division=...)
move_stepper_to(self, division) ==
    LET positions == get_division_positions(self)
    IN  IF 0 <= division /\ division < Len(positions)
        THEN move_to_position([self EXCEPT !.current_division = division],
                              positions[division + 1])
        ELSE self

\* A variant of next_move without the "if not self.scanning: return".
next_move_while_stopped(statuses, is_scanning) ==
    LET fwd_status == statuses[1]
        yaw_status == statuses[2]
        tilt_status == statuses[3]
    IN  IF \E n \in Steppers : statuses[n] = NoStatus THEN "no_status"
        ELSE IF \E n \in Steppers : statuses[n].scan_state # WAITING THEN "not_all_waiting"
        ELSE IF fwd_status.current_division < fwd_status.total_divisions - 1
             THEN "forward"
        ELSE IF yaw_status.current_division < yaw_status.total_divisions - 1
             THEN "yaw"
        ELSE IF tilt_status.current_division < tilt_status.total_divisions - 1
             THEN "tilt"
        ELSE "complete"

\* A variant of next_move that waits for the camera: no move while a
\* TAKE_PHOTO request has not been taken.
next_move_after_capture(statuses, is_scanning) ==
    LET fwd_status == statuses[1]
        yaw_status == statuses[2]
        tilt_status == statuses[3]
    IN  IF ~is_scanning THEN "not_scanning"
        ELSE IF \E n \in Steppers : statuses[n] = NoStatus THEN "no_status"
        ELSE IF \E n \in Steppers : statuses[n].scan_state # WAITING THEN "not_all_waiting"
        ELSE IF camera_photo_queue.pending > 0 THEN "not_all_waiting"
        ELSE IF fwd_status.current_division < fwd_status.total_divisions - 1
             THEN "forward"
        ELSE IF yaw_status.current_division < yaw_status.total_divisions - 1
             THEN "yaw"
        ELSE IF tilt_status.current_division < tilt_status.total_divisions - 1
             THEN "tilt"
        ELSE "complete"

\* handle_scan_sequence: which branch it takes with the statuses it holds.
\* Its locals: fwd_status = statuses[1], yaw_status = statuses[2],
\* tilt_status = statuses[3].
next_move(statuses, is_scanning) ==
    LET fwd_status == statuses[1]
        yaw_status == statuses[2]
        tilt_status == statuses[3]
    IN  IF ~is_scanning THEN "not_scanning"
        ELSE IF \E n \in Steppers : statuses[n] = NoStatus THEN "no_status"
        ELSE IF \E n \in Steppers : statuses[n].scan_state # WAITING THEN "not_all_waiting"
        ELSE IF fwd_status.current_division < fwd_status.total_divisions - 1
             THEN "forward"
        ELSE IF yaw_status.current_division < yaw_status.total_divisions - 1
             THEN "yaw"
        ELSE IF tilt_status.current_division < tilt_status.total_divisions - 1
             THEN "tilt"
        ELSE "complete"

\* handle_scan_sequence: the steppers after the branch's move_stepper calls
handle_scan_sequence(statuses, is_scanning, motors, current_pos) ==
    LET move == next_move(statuses, is_scanning)
    IN  IF move = "forward"
        THEN [motors EXCEPT ![1] = move_stepper_next(@, current_pos[1])]
        ELSE IF move = "yaw"
        THEN [motors EXCEPT ![1] = move_stepper_to(@, 0),
                            ![2] = move_stepper_next(@, current_pos[2])]
        ELSE IF move = "tilt"
        THEN [motors EXCEPT ![1] = move_stepper_to(@, 0),
                            ![2] = move_stepper_to(@, 0),
                            ![3] = move_stepper_next(@, current_pos[3])]
        ELSE motors

\* process_queue: one message of the drain; nothing else runs until the queue
\* is empty
process_queue ==
    /\ scan_manager_queue # <<>>
    /\ LET data == Head(scan_manager_queue)
           statuses == [stepper_statuses EXCEPT ![data.stepper_num] = data]
           move == next_move(statuses, scanning)
       IN  /\ stepper_statuses' = statuses
           /\ \E c1 \in TicPositions(stepper[1]), c2 \in TicPositions(stepper[2]),
                 c3 \in TicPositions(stepper[3]) :
                  stepper' = handle_scan_sequence(statuses, scanning, stepper,
                                                  <<c1, c2, c3>>)
           /\ scanning' = IF move = "complete" THEN FALSE ELSE scanning
           /\ start_disabled' = IF move = "complete" THEN FALSE ELSE start_disabled
           /\ scan_complete' = IF move = "complete" THEN TRUE ELSE scan_complete
    /\ scan_manager_queue' = Tail(scan_manager_queue)
    /\ pq_running' = (Tail(scan_manager_queue) # <<>>)
    /\ UNCHANGED <<camera_photo_queue, coverage, scans_started, pf, call>>

start_full_scan ==
    /\ ~pq_running
    /\ ~start_disabled
    /\ scans_started < MaxScans
    /\ scanning' = TRUE
    /\ stepper_statuses' = [n \in Steppers |-> NoStatus]
    /\ stepper' = [n \in Steppers |-> start_scan(stepper[n])]
    /\ start_disabled' = TRUE
    /\ scan_complete' = FALSE
    /\ coverage' = NoCoverage
    /\ scans_started' = scans_started + 1
    /\ UNCHANGED <<scan_manager_queue, pq_running, camera_photo_queue, pf, call>>

\* A variant of emergency_stop that stops only the motors that are MOVING.
emergency_stop_moving_only ==
    /\ ~pq_running
    /\ \E c1 \in TicPositions(stepper[1]), c2 \in TicPositions(stepper[2]),
          c3 \in TicPositions(stepper[3]) :
           stepper' = [n \in Steppers |->
                         IF stepper[n].scan_state = MOVING
                         THEN stop_scan(stepper[n], <<c1, c2, c3>>[n])
                         ELSE stepper[n]]
    /\ scanning' = FALSE
    /\ start_disabled' = FALSE
    /\ UNCHANGED <<stepper_statuses, scan_manager_queue, pq_running,
                   camera_photo_queue, coverage, scan_complete, scans_started, pf, call>>

\* emergency_stop: the EMERGENCY STOP button
emergency_stop ==
    /\ ~pq_running
    /\ \E c1 \in TicPositions(stepper[1]), c2 \in TicPositions(stepper[2]),
          c3 \in TicPositions(stepper[3]) :
           stepper' = [n \in Steppers |-> stop_scan(stepper[n], <<c1, c2, c3>>[n])]
    /\ scanning' = FALSE
    /\ start_disabled' = FALSE
    /\ UNCHANGED <<stepper_statuses, scan_manager_queue, pq_running,
                   camera_photo_queue, coverage, scan_complete, scans_started, pf, call>>

-----------------------------------------------------------------------------
(* The full scan *)

Tick == \E n \in Steppers : update_scan_state(n)
WatchCurrent == \E n \in Steppers : watch_current_position(n)
WatchTarget == \E n \in Steppers : watch_target_position(n)

Next ==
    \/ start_full_scan
    \/ Tick
    \/ WatchCurrent
    \/ WatchTarget
    \/ process_queue

Spec == Init /\ [][Next]_vars

-----------------------------------------------------------------------------
(* Properties of the full scan (checked under Spec) *)

\* The step is process_queue handling one message (nothing else takes a
\* message off scan_manager_queue).
ProcessQueueStep == Len(scan_manager_queue') < Len(scan_manager_queue)

\* The step is a sequencer action: handle_scan_sequence commanded a stepper.
SequencerAction == ProcessQueueStep /\ stepper' # stepper

\* The step put a TAKE_PHOTO request.
PhotoRequested == camera_photo_queue'.odd # camera_photo_queue.odd

Settled(n) == stepper[n].scan_state = MOVING /\ stepper'[n].scan_state = WAITING

Advanced(n) == stepper'[n].current_division = stepper[n].current_division + 1

AtLastDivision(self) ==
    self.current_division = Len(get_division_positions(self)) - 1

Retargeted(n) ==
    /\ stepper'[n].current_division = 0
    /\ stepper'[n].target_position = get_division_positions(stepper[n])[1]
    /\ stepper'[n].scan_state = MOVING

\* C1: grid coverage.  When the scan reports completion, a photo has been
\* requested for every division triple of the three position sequences, and
\* for none of them twice.
C1_GridCoverage ==
    scan_complete => (~coverage.dup /\ coverage.seen = AllTriples(stepper))

\* a scan with divisions 2, 2, 2 that reported completion after one request
\* for each of the 8 division triples
C1_Witness ==
    /\ scan_complete
    /\ stepper[3].divisions = 2
    /\ ~coverage.dup
    /\ coverage.seen = AllTriples(stepper)

\* C2: nested traversal.  When the scan reports completion, the number of
\* photo requests is the product of the three configured division counts and
\* they came in nested order, stepper 1 (Forward) cycling fastest; so
\* divisions 2, 2, 1 give the 4 requests (0,0,0), (1,0,0), (0,1,0), (1,1,0).
C2_NestedTraversal ==
    scan_complete =>
        /\ coverage.ordered
        /\ Cardinality(coverage.seen) =
               stepper[1].divisions * stepper[2].divisions * stepper[3].divisions

\* a scan with divisions 2, 2, 1 that reported completion after 8 requests in
\* nested order: stepper 3 has the two positions [min, max]
C2_Witness ==
    /\ scan_complete
    /\ stepper[3].divisions = 1
    /\ coverage.ordered
    /\ Cardinality(coverage.seen) = 8

\* C3: nesting rule.  Every sequencer action increments the division index of
\* exactly one stepper; stepper 2 (Tilt) is advanced only when stepper 1
\* (Forward) is at its last division and stepper 3 (Yaw) only when steppers 1
\* and 2 both are; when stepper 2 is advanced stepper 1 is re-targeted to
\* positions[0] with division 0, and when stepper 3 is advanced steppers 1 and
\* 2 both are.
C3_NestingRule ==
    [][SequencerAction =>
          /\ Cardinality({n \in Steppers : Advanced(n)}) = 1
          /\ Advanced(2) => (AtLastDivision(stepper[1]) /\ Retargeted(1))
          /\ Advanced(3) => /\ AtLastDivision(stepper[1]) /\ AtLastDivision(stepper[2])
                            /\ Retargeted(1) /\ Retargeted(2)]_vars

\* C4: synchronization barrier.  The sequencer makes a stepper leave WAITING,
\* or commands a stepper at all, only when all three steppers are in WAITING.
C4_Barrier ==
    [][SequencerAction => \A n \in Steppers : stepper[n].scan_state = WAITING]_vars

\* C5: edge-triggered capture.  A step in which stepper 1 (Forward) goes from
\* MOVING to WAITING puts one TAKE_PHOTO request, carrying that stepper's axis
\* and position; no other step puts one: not a tick while stepper 1 stays in
\* WAITING, and not the settle of stepper 2 or 3.
C5_EdgeTriggeredCapture ==
    [][/\ Settled(1) => /\ PhotoRequested
                        /\ camera_photo_queue'.last =
                               [message_type |-> "TAKE_PHOTO",
                                position |-> stepper'[1].current_position,
                                axis |-> "Forward"]
       /\ PhotoRequested => Settled(1)
       /\ (Settled(2) \/ Settled(3)) => ~PhotoRequested]_vars

\* stepper 1 settled once and has ticked again in WAITING, stepper 2 has
\* settled too, and exactly one request has been put
C5_Witness ==
    /\ stepper[1].scan_state = WAITING
    /\ stepper_statuses[1].scan_state = WAITING
    /\ stepper[2].scan_state = WAITING
    /\ coverage.seen = {[n \in Steppers |-> 0]}
    /\ camera_photo_queue.odd
    /\ camera_photo_queue.last.message_type = "TAKE_PHOTO"

\* C6: every photo request is put when all three steppers are in WAITING.
C6_CaptureWhenAllSettled ==
    [][PhotoRequested => \A n \in Steppers : stepper'[n].scan_state = WAITING]_vars

\* The step in which handle_scan_sequence logs "Scan sequence complete".
DeclaresComplete == ~scan_complete /\ scan_complete'

\* C22: when the sequencer declares the full scan complete, the ScanManager is
\* not scanning, the "Start Full Scan" button is enabled again and all three
\* steppers are IDLE.
C22_CompletionState ==
    [][DeclaresComplete =>
          /\ ~scanning'
          /\ ~start_disabled'
          /\ \A n \in Steppers : stepper'[n].scan_state = IDLE]_vars

\* the scan was declared complete and the three steppers are still WAITING
\* at their last division
C22_Witness ==
    /\ scan_complete
    /\ ~scanning
    /\ ~start_disabled
    /\ \A n \in Steppers :
           /\ stepper[n].scan_state = WAITING
           /\ AtLastDivision(stepper[n])

\* The sequencer takes stepper n out of WAITING.
LeavesWaiting(n) ==
    /\ ProcessQueueStep
    /\ stepper[n].scan_state = WAITING
    /\ stepper'[n].scan_state # WAITING

\* C25: dwell gate.  Every MOVING-to-WAITING transition arms the dwell timer
\* (_wait_timer, DIVISION_WAIT_TIME = 2.0), and the sequencer takes no stepper
\* out of WAITING whose dwell timer was not armed.
C25_DwellGate ==
    [][\A n \in Steppers :
          /\ Settled(n) => stepper'[n].wait_timer
          /\ LeavesWaiting(n) => stepper[n].wait_timer]_vars

\* the sequencer has moved stepper 1 on from its first division although no
\* dwell timer was ever armed
C25_Witness ==
    /\ scanning
    /\ stepper[1].scan_state = MOVING
    /\ stepper[1].current_division = 1
    /\ ~stepper[1].wait_timer
    /\ coverage.seen = {<<0, 0, 0>>}

-----------------------------------------------------------------------------
(* The full scan with the emergency stop button *)

\* divisions of the (forward, yaw, tilt) steppers for the runs with the button
StopDivisionChoices == {<<2, 2, 1>>}

InitStop ==
    /\ Init
    /\ \E d \in StopDivisionChoices : \A n \in Steppers : stepper[n].divisions = d[n]

NextStop ==
    \/ start_full_scan
    \/ Tick
    \/ WatchCurrent
    \/ WatchTarget
    \/ process_queue
    \/ emergency_stop

SpecStop == InitStop /\ [][NextStop]_vars

\* C19: emergency_stop, pressed in any state (a scan running, no scan running,
\* or right after another emergency_stop), leaves the ScanManager not scanning
\* and all three steppers IDLE.
C19_EmergencyStop ==
    [][emergency_stop =>
          /\ ~scanning'
          /\ \A n \in Steppers : stepper'[n].scan_state = IDLE]_vars

\* A scan was started and has not completed, yet nothing is scanning.
StoppedMidScan == scans_started > 0 /\ ~scan_complete /\ ~scanning

\* an emergency stop in the middle of a scan, after the first photo, with
\* status messages still in the queue
C19_Witness ==
    /\ StoppedMidScan
    /\ \A n \in Steppers : stepper[n].scan_state = IDLE
    /\ coverage.seen # {}
    /\ scan_manager_queue # <<>>
    /\ ~start_disabled

\* Nothing is scanning: the state emergency_stop leaves behind (and the one
\* before the first scan).
Halted ==
    /\ ~scanning
    /\ \A n \in Steppers : stepper[n].scan_state = IDLE

\* C20: emergency stop is final.  From the emergency stop until
\* start_full_scan is pressed again, no stepper leaves IDLE, no division index
\* changes and no photo is requested, whatever status messages are still
\* processed.
C20_StopIsFinal ==
    [][(Halted /\ ~start_full_scan) =>
          /\ \A n \in Steppers :
                 /\ stepper'[n].scan_state = IDLE
                 /\ stepper'[n].current_division = stepper[n].current_division
          /\ ~scanning'
          /\ ~PhotoRequested]_vars

\* after an emergency stop in the middle of a scan, the WAITING statuses that
\* all three steppers had enqueued have been processed, and the steppers are
\* still IDLE
C20_Witness ==
    /\ StoppedMidScan
    /\ \A n \in Steppers :
           /\ stepper[n].scan_state = IDLE
           /\ stepper_statuses[n].scan_state = WAITING
    /\ stepper_statuses[1].current_division = 1
    /\ scan_manager_queue = <<>>

-----------------------------------------------------------------------------
(* The full scan with the camera: requests are taken off camera_photo_queue *)
(* by the camera at its own pace (SpecCapture), or the queue is not         *)
(* available at all (SpecNoCamera)                                          *)

\* The camera takes one TAKE_PHOTO request off the queue.
take_photo ==
    /\ ~pq_running
    /\ camera_photo_queue.pending > 0
    /\ camera_photo_queue' = [camera_photo_queue EXCEPT !.pending = @ - 1]
    /\ UNCHANGED <<stepper, scanning, stepper_statuses, start_disabled,
                   scan_manager_queue, pq_running, coverage, scan_complete,
                   scans_started, pf, call>>

InitCapture == InitStop

NextCapture ==
    \/ start_full_scan
    \/ Tick
    \/ WatchCurrent
    \/ WatchTarget
    \/ process_queue
    \/ take_photo

SpecCapture == InitCapture /\ [][NextCapture]_vars

InitNoCamera ==
    /\ \E d \in DivisionChoices :
           stepper = [n \in Steppers |-> ReadyStepper(n, d[n])]
    /\ scanning = FALSE
    /\ stepper_statuses = [n \in Steppers |-> NoStatus]
    /\ start_disabled = FALSE
    /\ scan_manager_queue = <<>>
    /\ pq_running = FALSE
    /\ camera_photo_queue = [NoPhotos EXCEPT !.available = FALSE]
    /\ coverage = NoCoverage
    /\ scan_complete = FALSE
    /\ scans_started = 0
    /\ pf = PfIdle
    /\ call = NoCall

SpecNoCamera == InitNoCamera /\ [][Next]_vars

\* handle_scan_sequence holds a WAITING status of each stepper, and each
\* stepper is WAITING.
AllWaiting ==
    /\ \A n \in Steppers : stepper_statuses'[n].scan_state = WAITING
    /\ \A n \in Steppers : stepper[n].scan_state = WAITING

\* C26: capture is decoupled from motion.  The sequencer neither reads nor
\* changes the photo requests: whenever it is scanning and finds all three
\* steppers WAITING it moves a stepper on or declares the scan complete,
\* whether or not the camera has taken the requests put so far.
C26_CaptureDecoupled ==
    [][ProcessQueueStep =>
          /\ camera_photo_queue' = camera_photo_queue
          /\ (scanning /\ AllWaiting) =>
                 \/ scan_complete'
                 \/ \E n \in Steppers : stepper'[n].scan_state # WAITING]_vars

\* the scan has been declared complete while a request is still waiting for
\* the camera
C26_Witness ==
    /\ scan_complete
    /\ camera_photo_queue.pending > 0
    /\ ~coverage.dup
    /\ Cardinality(coverage.seen) >= 2

\* C27: when the put of the TAKE_PHOTO request raises, the request is dropped
\* and the scan goes on: after that tick stepper 1 is WAITING, its division
\* index is unchanged and the ScanManager is still scanning.
C27_DroppedRequest ==
    [][(update_scan_state(1) /\ requests_photo(stepper[1])
                             /\ ~camera_photo_queue.available) =>
          /\ stepper'[1].scan_state = WAITING
          /\ stepper'[1].current_division = stepper[1].current_division
          /\ scanning' = scanning
          /\ camera_photo_queue' = camera_photo_queue]_vars

\* with the queue not available, stepper 1 is WAITING at its second division
\* in a running scan although no request was ever put
C27_Witness ==
    /\ ~camera_photo_queue.available
    /\ camera_photo_queue.last = NoPhoto
    /\ scanning
    /\ stepper[1].scan_state = WAITING
    /\ stepper[1].current_division = 1

-----------------------------------------------------------------------------
(* Completion of the full scan *)

\* A WAITING status of stepper n is still in scan_manager_queue.
QueuedWaiting(n) ==
    \E i \in 1..Len(scan_manager_queue) :
        /\ scan_manager_queue[i].stepper_num = n
        /\ scan_manager_queue[i].scan_state = WAITING

\* Stepper n has dropped out of the scan: it is IDLE, so update_scan_state
\* puts no more statuses for it, and the ScanManager neither holds nor is
\* about to receive a WAITING status of it.
DroppedOut(n) ==
    /\ stepper[n].scan_state = IDLE
    /\ stepper_statuses[n].scan_state # WAITING
    /\ ~QueuedWaiting(n)

\* The ScanManager is scanning and a stepper has dropped out: no
\* handle_scan_sequence call will find all three statuses WAITING again, so
\* it neither moves a stepper nor declares the scan complete.
CannotComplete == scanning /\ \E n \in Steppers : DroppedOut(n)

\* Without another start or stop, a scan that cannot complete stays so.
CannotCompleteIsStable == [][CannotComplete => (CannotComplete' /\ ~scan_complete')]_vars

\* C23: a full scan started with all three steppers ready eventually reaches
\* "Scan sequence complete", under every interleaving of the timers.  As a
\* property of finite runs: the scan never gets into a state from which it
\* cannot complete (CannotComplete is stable, so a run through such a state
\* never completes, however fairly the timers fire).
C23_ScanCompletes == ~CannotComplete

\* stepper 1 is IDLE in the middle of the scan, after two of the photos,
\* while the ScanManager holds a MOVING status of it
C23_Witness ==
    /\ CannotComplete
    /\ DroppedOut(1)
    /\ stepper_statuses[1].scan_state = MOVING
    /\ scan_manager_queue = <<>>
    /\ Cardinality(coverage.seen) = 2

-----------------------------------------------------------------------------
(* The sequencer's actions in the full scan (checked under Spec) *)

\* The steppers that are MOVING
MovingSteppers(motors) == {n \in Steppers : motors[n].scan_state = MOVING}

\* C33: at a transition point of the full scan -- handle_scan_sequence acts
\* while all three steppers are WAITING -- no two steppers are put into
\* MOVING: after the action at most one stepper is MOVING.
C33_OneAxisPerTransition ==
    [][(ProcessQueueStep /\ scanning /\ AllWaiting) =>
          Cardinality(MovingSteppers(stepper')) <= 1]_vars

\* handle_scan_sequence has just taken its "yaw" branch from a barrier:
\* stepper 1 is MOVING back to division 0 and stepper 2 MOVING to division 1
C33_Witness ==
    /\ scanning
    /\ \A n \in Steppers : stepper_statuses[n].scan_state = WAITING
    /\ MovingSteppers(stepper) = {1, 2}
    /\ stepper[1].current_division = 0
    /\ stepper[2].current_division = 1
    /\ stepper[3].scan_state = WAITING

-----------------------------------------------------------------------------
\* The step is a handle_scan_sequence call that takes one of its three
\* move_stepper branches.
CommandIssued ==
    /\ ProcessQueueStep
    /\ next_move(stepper_statuses', scanning) \in {"forward", "yaw", "tilt"}

\* The status held for stepper n says what the stepper is doing.
StatusCurrent(statuses, motors, n) ==
    /\ statuses[n].scan_state = motors[n].scan_state
    /\ statuses[n].current_division = motors[n].current_division

\* C34: no stale decisions.  Whenever handle_scan_sequence issues a command,
\* the status it holds for every stepper has that stepper's scan_state and
\* current_division of that moment, so that no stepper is advanced twice
\* from one barrier.
C34_NoStaleDecisions ==
    [][CommandIssued =>
          \A n \in Steppers : StatusCurrent(stepper_statuses', stepper, n)]_vars

\* the ScanManager still holds "WAITING at division 0" for stepper 1, which
\* it has already advanced to division 1, and the next message it will handle
\* is a WAITING status of stepper 3: the barrier test will pass again
C34_Witness ==
    /\ scanning
    /\ \A n \in Steppers : stepper_statuses[n].scan_state = WAITING
    /\ stepper_statuses[1].current_division = 0
    /\ stepper[1].current_division = 1
    /\ scan_manager_queue # <<>>
    /\ Head(scan_manager_queue).stepper_num = 3
    /\ Head(scan_manager_queue).scan_state = WAITING

-----------------------------------------------------------------------------
\* The status the step has put on scan_manager_queue
StatusPut == scan_manager_queue'[Len(scan_manager_queue')]

\* C36: capture precedes advance.  The tick in which stepper 1 goes from
\* MOVING to WAITING puts the TAKE_PHOTO request of that settle, and the
\* status it puts still says MOVING: a WAITING status follows only on a later
\* tick.  So when the sequencer moves stepper 1 away from a position it has
\* settled at, the last request put is the one for that position.
C36_CapturePrecedesAdvance ==
    [][/\ Settled(1) =>
              /\ PhotoRequested
              /\ StatusPut.stepper_num = 1
              /\ StatusPut.scan_state = MOVING
       /\ LeavesWaiting(1) =>
              /\ camera_photo_queue.last.message_type = "TAKE_PHOTO"
              /\ camera_photo_queue.last.position = stepper[1].target_position
              /\ camera_photo_queue.last.position = stepper[1].current_position]_vars

\* the sequencer has moved stepper 1 on to division 1 after the first photo
\* request, the only one so far
C36_Witness ==
    /\ scanning
    /\ stepper[1].scan_state = MOVING
    /\ stepper[1].current_division = 1
    /\ coverage.seen = {[n \in Steppers |-> 0]}
    /\ camera_photo_queue.odd
    /\ camera_photo_queue.last.position = get_division_positions(stepper[1])[1]

-----------------------------------------------------------------------------
(* The full scan with steppers that are not all ready *)

\* Which of the three steppers are energized when "Start Full Scan" is pressed
ReadyChoices == {<<TRUE, TRUE, FALSE>>, <<TRUE, FALSE, FALSE>>, <<FALSE, FALSE, FALSE>>}

InitReady ==
    /\ \E r \in ReadyChoices :
           stepper = [n \in Steppers |-> [ReadyStepper(n, 2) EXCEPT !.energized = r[n]]]
    /\ scanning = FALSE
    /\ stepper_statuses = [n \in Steppers |-> NoStatus]
    /\ start_disabled = FALSE
    /\ scan_manager_queue = <<>>
    /\ pq_running = FALSE
    /\ camera_photo_queue = NoPhotos
    /\ coverage = NoCoverage
    /\ scan_complete = FALSE
    /\ scans_started = 0
    /\ pf = PfIdle
    /\ call = NoCall

SpecReady == InitReady /\ [][NextStop]_vars

\* Some stepper passes validate_scan_parameters.
SomeAxisReady == \E n \in Steppers : validate_scan_parameters(stepper[n])

\* C21: start_full_scan sets the ScanManager scanning only if at least one
\* stepper passes validate_scan_parameters; when none does, it stays not
\* scanning and the "Start Full Scan" button stays enabled.
C21_StartNeedsReadyAxis ==
    [][start_full_scan =>
          /\ scanning' => SomeAxisReady
          /\ ~SomeAxisReady => (~scanning' /\ ~start_disabled')]_vars

\* "Start Full Scan" was pressed with no stepper ready
C21_Witness ==
    /\ scans_started = 1
    /\ ~SomeAxisReady
    /\ \A n \in Steppers : stepper[n].scan_state = IDLE
    /\ scanning
    /\ start_disabled

-----------------------------------------------------------------------------
(* A second full scan with a stepper that is no longer ready *)

\* A stepper as a completed full scan leaves it: WAITING at its last division
LeftWaiting(n) ==
    LET ready == ReadyStepper(n, 2)
        positions == get_division_positions(ready)
    IN  [ready EXCEPT !.scan_state = WAITING,
                      !.current_division = Len(positions) - 1,
                      !.current_position = positions[Len(positions)],
                      !.target_position = positions[Len(positions)],
                      !.tic_position = positions[Len(positions)],
                      !.tic_target = positions[Len(positions)]]

\* The state after "Scan sequence complete" (the steppers are not stopped,
\* the ScanManager holds their last statuses, "Start Full Scan" is enabled
\* again) and after "Deenergize" was pressed on stepper 3.  scans_started
\* counts the presses of "Start Full Scan" from here on.
InitRestart ==
    /\ stepper = [n \in Steppers |->
                    IF n = 3 THEN [LeftWaiting(n) EXCEPT !.energized = FALSE]
                    ELSE LeftWaiting(n)]
    /\ scanning = FALSE
    /\ stepper_statuses = [n \in Steppers |-> StepperStatus(LeftWaiting(n))]
    /\ start_disabled = FALSE
    /\ scan_manager_queue = <<>>
    /\ pq_running = FALSE
    /\ camera_photo_queue =
           [last |-> [message_type |-> "TAKE_PHOTO",
                      position |-> LeftWaiting(1).current_position,
                      axis |-> LeftWaiting(1).axis],
            odd |-> FALSE, pending |-> MaxPending, available |-> TRUE]
    /\ coverage = NoCoverage
    /\ scan_complete = TRUE
    /\ scans_started = 0
    /\ pf = PfIdle
    /\ call = NoCall

SpecRestart == InitRestart /\ [][NextStop]_vars

\* A stepper does not pass validate_scan_parameters: start_scan fails on it.
AxisMissing == \E n \in Steppers : ~validate_scan_parameters(stepper[n])

\* C37: missing-axis hang.  The sequencer issues no command until it holds a
\* status of each of the three steppers; and in a full scan in which a
\* stepper failed start_scan no stepper advances past its first position and
\* the ScanManager stays scanning until emergency_stop is called.
C37_MissingAxisHang ==
    [][/\ CommandIssued => \A n \in Steppers : stepper_statuses'[n] # NoStatus
       /\ (scanning /\ AxisMissing) =>
              /\ \A n \in Steppers : ~Advanced(n)
              /\ ~scanning' => emergency_stop]_vars

\* the second scan goes on without stepper 3: stepper 1 has been advanced to
\* division 1 while stepper 3, de-energized, still reports WAITING from the
\* first scan
C37_Witness ==
    /\ scanning
    /\ AxisMissing
    /\ scans_started = 1
    /\ stepper[1].current_division = 1
    /\ stepper[1].scan_state = MOVING
    /\ ~stepper[3].energized
    /\ stepper[3].scan_state = WAITING
    /\ stepper_statuses[3].scan_state = WAITING

-----------------------------------------------------------------------------
(* The full scan with axis names other than the default ones *)

\* The axis names of steppers 1, 2, 3: the default ones, or the ones loaded
\* from the saved settings (as selected with the axis Select of each stepper)
AxisAssignments == {get_axes, <<get_axes[3], get_axes[1], get_axes[2]>>}

InitSelect ==
    /\ \E a \in AxisAssignments, d \in StopDivisionChoices :
           stepper = [n \in Steppers |-> [ReadyStepper(n, d[n]) EXCEPT !.axis = a[n]]]
    /\ scanning = FALSE
    /\ stepper_statuses = [n \in Steppers |-> NoStatus]
    /\ start_disabled = FALSE
    /\ scan_manager_queue = <<>>
    /\ pq_running = FALSE
    /\ camera_photo_queue = NoPhotos
    /\ coverage = NoCoverage
    /\ scan_complete = FALSE
    /\ scans_started = 0
    /\ pf = PfIdle
    /\ call = NoCall

SpecSelect == InitSelect /\ [][Next]_vars

\* The status says the stepper has a division of its sequence left.
HasDivisionLeft(status) == status.current_division < status.total_divisions - 1

-----------------------------------------------------------------------------
(* get_division_positions on free inputs *)

PositionInputs ==
    {[min_position |-> a, max_position |-> b, divisions |-> d, blank |-> {},
      result |-> <<>>, done |-> FALSE] :
        a \in -PosRange..PosRange, b \in -PosRange..PosRange, d \in -1..MaxDivisions}
    \cup
    {[min_position |-> 0, max_position |-> t[1], divisions |-> t[2], blank |-> {},
      result |-> <<>>, done |-> FALSE] : t \in {<<100, 5>>, <<100, 3>>, <<10, 4>>}}

InitPositions ==
    /\ stepper = [n \in Steppers |-> ReadyStepper(n, 2)]
    /\ scanning = FALSE
    /\ stepper_statuses = [n \in Steppers |-> NoStatus]
    /\ start_disabled = FALSE
    /\ scan_manager_queue = <<>>
    /\ pq_running = FALSE
    /\ camera_photo_queue = NoPhotos
    /\ coverage = NoCoverage
    /\ scan_complete = FALSE
    /\ scans_started = 0
    /\ pf \in PositionInputs
    /\ call = NoCall

ComputePositions ==
    /\ ~pf.done
    /\ pf' = [pf EXCEPT !.result = get_division_positions(pf), !.done = TRUE]
    /\ UNCHANGED <<stepper, scanning, stepper_statuses, start_disabled,
                   scan_manager_queue, pq_running, camera_photo_queue, coverage,
                   scan_complete, scans_started, call>>

NextPositions == ComputePositions

SpecPositions == InitPositions /\ [][NextPositions]_vars

-----------------------------------------------------------------------------
(* Properties of get_division_positions (checked under SpecPositions) *)

PfValid == pf.done /\ pf.max_position > pf.min_position

C11_EmptyWhenMaxNotAboveMin ==
    (pf.done /\ pf.max_position <= pf.min_position) => pf.result = <<>>

\* max = min with 3 divisions has been computed: three equal positions
C11_Witness ==
    /\ pf.done /\ pf.max_position = pf.min_position /\ pf.divisions = 3
    /\ pf.result = <<pf.min_position, pf.min_position, pf.min_position>>

-----------------------------------------------------------------------------
(* One stepper on its own: the methods of StepperMotor called on stepper 1  *)
(* in any order, on a configuration that stays fixed.  start_scan is called *)
(* by the Scan button and by start_full_scan, stop_scan by the Stop button  *)
(* and by emergency_stop, continue_scan by ScanManager.move_stepper.        *)

\* Configurations of stepper 1: <<min_position, max_position, divisions>> and
\* the position the motor is parked at
AxisChoices ==
    {<<0, 2, 3, 0>>, <<0, 3, 3, 0>>, <<1, 3, 2, 0>>, <<0, 2, 1, 0>>, <<0, 2, 0, 0>>,
     <<0, 2, -1, 0>>, <<2, 2, 2, 0>>, <<2, 0, 2, 0>>, <<18, 20, 2, 18>>}
\* Inputs of stepper 1 left empty
BlankChoices == {{}, {"min_position"}, {"max_position"}, {"divisions"}}

InitAxis ==
    /\ \E c \in AxisChoices, b \in BlankChoices, e \in BOOLEAN, i \in BOOLEAN :
           stepper = [n \in Steppers |->
                        IF n = 1
                        THEN [ReadyStepper(1, c[3]) EXCEPT !.min_position = c[1],
                                                           !.max_position = c[2],
                                                           !.current_position = c[4],
                                                           !.target_position = c[4],
                                                           !.tic_position = c[4],
                                                           !.tic_target = c[4],
                                                           !.blank = b,
                                                           !.energized = e,
                                                           !.initialized = i]
                        ELSE ReadyStepper(n, 2)]
    /\ scanning = FALSE
    /\ stepper_statuses = [n \in Steppers |-> NoStatus]
    /\ start_disabled = FALSE
    /\ scan_manager_queue = <<>>
    /\ pq_running = FALSE
    /\ camera_photo_queue = NoPhotos
    /\ coverage = NoCoverage
    /\ scan_complete = FALSE
    /\ scans_started = 0
    /\ pf = PfIdle
    /\ call = NoCall

\* start_scan gets past its two early returns
starts(self) == validate_scan_parameters(self) /\ get_division_positions(self) # <<>>

CallStartScan ==
    /\ ~pq_running
    /\ stepper' = [stepper EXCEPT ![1] = start_scan(@)]
    /\ call' = [method |-> "start_scan", result |-> FALSE,
                run |-> IF starts(stepper[1]) THEN "running" ELSE call.run]
    /\ coverage' = IF starts(stepper[1]) THEN NoCoverage ELSE coverage
    /\ UNCHANGED <<scanning, stepper_statuses, start_disabled, scan_manager_queue,
                   pq_running, camera_photo_queue, scan_complete, scans_started, pf>>

CallContinueScan ==
    /\ ~pq_running
    /\ \E p \in TicPositions(stepper[1]) :
           /\ stepper' = [stepper EXCEPT ![1] = continue_scan(@, p)]
           /\ call' = [method |-> "continue_scan", result |-> FALSE,
                       run |-> IF /\ call.run = "running"
                                  /\ stepper[1].scan_state = WAITING
                                  /\ stepper'[1].scan_state = IDLE
                               THEN "done" ELSE call.run]
    /\ UNCHANGED <<scanning, stepper_statuses, start_disabled, scan_manager_queue,
                   pq_running, camera_photo_queue, coverage, scan_complete,
                   scans_started, pf>>

CallStopScan ==
    /\ ~pq_running
    /\ \E p \in TicPositions(stepper[1]) :
           stepper' = [stepper EXCEPT ![1] = stop_scan(@, p)]
    /\ call' = [method |-> "stop_scan", result |-> FALSE,
                run |-> IF call.run = "running" THEN "aborted" ELSE call.run]
    /\ UNCHANGED <<scanning, stepper_statuses, start_disabled, scan_manager_queue,
                   pq_running, camera_photo_queue, coverage, scan_complete,
                   scans_started, pf>>

AxisTick == update_scan_state(1)
AxisWatchCurrent == watch_current_position(1)
AxisWatchTarget == watch_target_position(1)
AxisEnergize == update_energized(1)
AxisPower == update_initialized(1)

NextAxis ==
    \/ CallStartScan
    \/ CallContinueScan
    \/ CallStopScan
    \/ AxisTick
    \/ AxisWatchCurrent
    \/ AxisWatchTarget
    \/ AxisEnergize
    \/ process_queue

SpecAxis == InitAxis /\ [][NextAxis]_vars

-----------------------------------------------------------------------------
(* Properties of one stepper (checked under SpecAxis) *)

\* The parameters of the stepper as a scan needs them: motor initialized and
\* energized, both bounds and the division count present, divisions > 0 and
\* max > min.
ValidForScan(self) ==
    /\ self.initialized /\ self.energized
    /\ self.blank = {}
    /\ self.divisions > 0
    /\ self.max_position > self.min_position

\* C12: start_scan success.  Called on an initialized and energized motor with
\* valid parameters, start_scan sets the division index to 0, the target to
\* positions[0] and the state to MOVING, whatever the division index was.
C12_StartScanSuccess ==
    [][(CallStartScan /\ ValidForScan(stepper[1])) =>
          /\ stepper'[1].current_division = 0
          /\ stepper'[1].target_position = get_division_positions(stepper[1])[1]
          /\ stepper'[1].scan_state = MOVING]_vars

\* start_scan was called after the stepper had reported WAITING at division 1:
\* it is MOVING to positions[0] at division 0 again
C12_Witness ==
    /\ call.method = "start_scan"
    /\ stepper_statuses[1].scan_state = WAITING
    /\ stepper_statuses[1].current_division = 1
    /\ coverage = NoCoverage
    /\ stepper[1].scan_state = MOVING
    /\ stepper[1].current_division = 0
    /\ stepper[1].target_position = stepper[1].min_position

\* C13: start_scan failure.  Called with divisions <= 0, or max <= min, or a
\* bound missing, or on a motor that is not both initialized and energized,
\* start_scan changes nothing: an IDLE stepper stays IDLE, and the division
\* index and the target position are as before.
C13_StartScanFailure ==
    [][(CallStartScan /\ ~ValidForScan(stepper[1])) =>
          /\ stepper'[1] = stepper[1]
          /\ stepper[1].scan_state = IDLE => stepper'[1].scan_state = IDLE]_vars

\* start_scan was called on an energized motor with divisions = 0, which is
\* still IDLE
C13_Witness ==
    /\ call.method = "start_scan"
    /\ call.run = "none"
    /\ stepper[1].energized /\ stepper[1].initialized /\ stepper[1].blank = {}
    /\ stepper[1].divisions = 0
    /\ stepper[1].scan_state = IDLE

\* |current - target| <= 0.05 * |target|
WithinTolerance(self) ==
    100 * Abs(self.current_position - self.target_position)
        <= POSITION_TOLERANCE_PERCENT * Abs(self.target_position)

\* C15: tick in MOVING.  A tick that finds the stepper in MOVING moves it to
\* WAITING if and only if its current position is within the 5% tolerance of
\* its target; otherwise it stays in MOVING.
C15_TickWithinTolerance ==
    [][(AxisTick /\ stepper[1].scan_state = MOVING) =>
          /\ stepper'[1].scan_state \in {MOVING, WAITING}
          /\ stepper'[1].scan_state = WAITING <=> WithinTolerance(stepper[1])]_vars

\* a tick has settled the stepper on its target exactly
C15_Witness ==
    /\ stepper[1].scan_state = WAITING
    /\ stepper[1].current_position = stepper[1].target_position
    /\ scan_manager_queue # <<>>
    /\ scan_manager_queue[Len(scan_manager_queue)].scan_state = MOVING

\* C16: continue_scan.  Called in IDLE or MOVING it changes nothing; called in
\* WAITING it increments the division index and, if the new index is >= the
\* number of positions, the stepper becomes IDLE, and otherwise the target
\* becomes positions[new index] and the stepper becomes MOVING.
C16_ContinueScan ==
    [][CallContinueScan =>
          IF stepper[1].scan_state # WAITING
          THEN stepper'[1] = stepper[1]
          ELSE LET positions == get_division_positions(stepper[1])
                   new == stepper[1].current_division + 1
               IN  IF new >= Len(positions)
                   THEN stepper'[1].scan_state = IDLE
                   ELSE /\ stepper'[1].current_division = new
                        /\ stepper'[1].target_position = positions[new + 1]
                        /\ stepper'[1].scan_state = MOVING]_vars

\* continue_scan has moved the stepper on to division 1, and a later call has
\* found it MOVING
C16_Witness ==
    /\ call.method = "continue_scan"
    /\ call.run = "running"
    /\ stepper[1].scan_state = MOVING
    /\ stepper[1].current_division = 1
    /\ stepper_statuses[1].scan_state = MOVING
    /\ stepper_statuses[1].current_division = 1

\* C17: single-axis round trip.  When start_scan, ticks and continue_scan
\* calls (and no stop_scan) have brought the stepper back to IDLE, it has
\* settled once on every division of get_division_positions, in list order;
\* all along its target is the position of its division, and the position it
\* settled at last (the one of its photo request) is that of the division.
C17_RoundTrip ==
    /\ call.run = "done" =>
           /\ stepper[1].scan_state = IDLE
           /\ ~coverage.dup
           /\ coverage.ordered
           /\ coverage.seen =
                  {[n \in Steppers |-> IF n = 1 THEN d ELSE 0] :
                       d \in 0..(Len(get_division_positions(stepper[1])) - 1)}
    /\ (call.run = "running" /\ stepper[1].scan_state # IDLE) =>
           /\ stepper[1].current_division < Len(get_division_positions(stepper[1]))
           /\ stepper[1].target_position =
                  get_division_positions(stepper[1])[stepper[1].current_division + 1]
    /\ (call.run \in {"running", "done"} /\ coverage.seen # {}) =>
           camera_photo_queue.last.position =
               get_division_positions(stepper[1])[Cardinality(coverage.seen)]

\* a scan over three positions has run to its end
C17_Witness ==
    /\ call.run = "done"
    /\ stepper[1].divisions = 3
    /\ Cardinality(coverage.seen) = 3
    /\ stepper[1].scan_state = IDLE

\* C18: stop_scan.  Called in any state it leaves the stepper IDLE with its
\* target equal to the motor's current position and no dwell timer armed, and
\* a second call changes nothing.
C18_StopScan ==
    [][CallStopScan =>
          /\ stepper'[1].scan_state = IDLE
          /\ stepper'[1].target_position = stepper'[1].tic_position
          /\ ~stepper'[1].wait_timer
          /\ \A p \in TicPositions(stepper'[1]) :
                 stop_scan(stepper'[1], p) = stepper'[1]]_vars

\* stop_scan has halted an energized motor on its way to its target
C18_Witness ==
    /\ call.method = "stop_scan"
    /\ call.run = "aborted"
    /\ stepper[1].energized /\ stepper[1].initialized
    /\ stepper[1].scan_state = IDLE
    /\ stepper[1].target_position = stepper[1].tic_position
    /\ stepper[1].target_position # stepper[1].max_position
    /\ stepper[1].target_position # stepper[1].min_position

-----------------------------------------------------------------------------
-----------------------------------------------------------------------------
(* One stepper with its Zero button and its position inputs.  An edit of an *)
(* Input posts Input.Changed, which the stepper handles in a later          *)
(* callback.                                                                *)

\* What the user types: <<input id, number typed>>
InputEvents == {<<"divisions_stepper", 3>>, <<"min_position_stepper", 0>>}

InitControls ==
    /\ \E e \in BOOLEAN, i \in BOOLEAN :
           stepper = [n \in Steppers |->
                        IF n = 1
                        THEN [ReadyStepper(1, 2) EXCEPT !.energized = e,
                                                        !.initialized = i]
                        ELSE ReadyStepper(n, 2)]
    /\ scanning = FALSE
    /\ stepper_statuses = [n \in Steppers |-> NoStatus]
    /\ start_disabled = FALSE
    /\ scan_manager_queue = <<>>
    /\ pq_running = FALSE
    /\ camera_photo_queue = NoPhotos
    /\ coverage = NoCoverage
    /\ scan_complete = FALSE
    /\ scans_started = 0
    /\ pf = PfIdle
    /\ call = NoCall

\* The value an input holds
InputValue(self, id) ==
    IF id = "divisions_stepper" THEN self.divisions
    ELSE IF id = "min_position_stepper" THEN self.min_position
    ELSE self.max_position

\* The user changes the text of a position input that is not disabled.
TypeInput ==
    /\ ~pq_running
    /\ ~position_controls_disabled(stepper[1])
    /\ stepper[1].input_changed = <<>>
    /\ \E event \in InputEvents :
           /\ InputValue(stepper[1], event[1]) # event[2]
           /\ stepper' = [stepper EXCEPT ![1].input_changed = event]
    /\ UNCHANGED <<scanning, stepper_statuses, start_disabled, scan_manager_queue,
                   pq_running, camera_photo_queue, coverage, scan_complete,
                   scans_started, pf, call>>

\* The stepper handles the Input.Changed message.
InputChanged ==
    /\ ~pq_running
    /\ stepper[1].input_changed # <<>>
    /\ stepper' = [stepper EXCEPT
                     ![1] = on_input_changed([@ EXCEPT !.input_changed = <<>>],
                                             stepper[1].input_changed)]
    /\ call' = [method |-> "on_input_changed", result |-> FALSE, run |-> call.run]
    /\ UNCHANGED <<scanning, stepper_statuses, start_disabled, scan_manager_queue,
                   pq_running, camera_photo_queue, coverage, scan_complete,
                   scans_started, pf>>

\* The Zero button
CallZeroStepper ==
    /\ ~pq_running
    /\ \E p \in TicPositions(stepper[1]) :
           stepper' = [stepper EXCEPT ![1] = zero_stepper(@, p)]
    /\ call' = [method |-> "zero_stepper", result |-> FALSE,
                run |-> IF call.run = "running" /\ stepper[1].initialized
                        THEN "aborted" ELSE call.run]
    /\ UNCHANGED <<scanning, stepper_statuses, start_disabled, scan_manager_queue,
                   pq_running, camera_photo_queue, coverage, scan_complete,
                   scans_started, pf>>

\* ScanManager.move_stepper(1, division=0): the sequencer's reset
CallMoveStepper ==
    /\ ~pq_running
    /\ stepper' = [stepper EXCEPT ![1] = move_stepper_to(@, 0)]
    /\ call' = [method |-> "move_stepper", result |-> FALSE, run |-> call.run]
    /\ UNCHANGED <<scanning, stepper_statuses, start_disabled, scan_manager_queue,
                   pq_running, camera_photo_queue, coverage, scan_complete,
                   scans_started, pf>>

\* The stepper with its Zero button and the sequencer's reset
NextZero ==
    \/ CallStartScan
    \/ CallContinueScan
    \/ CallStopScan
    \/ CallZeroStepper
    \/ CallMoveStepper
    \/ AxisTick
    \/ AxisWatchCurrent
    \/ AxisWatchTarget
    \/ AxisEnergize
    \/ AxisPower
    \/ process_queue

SpecZero == InitControls /\ [][NextZero]_vars

\* The stepper with its position inputs
NextInputs ==
    \/ CallStartScan
    \/ CallContinueScan
    \/ CallStopScan
    \/ TypeInput
    \/ InputChanged
    \/ AxisTick
    \/ AxisWatchCurrent
    \/ AxisWatchTarget
    \/ process_queue

SpecInputs == InitControls /\ [][NextInputs]_vars

-----------------------------------------------------------------------------
(* Properties of the Zero button and the waiting stepper (checked under     *)
(* SpecZero)                                                                *)

-----------------------------------------------------------------------------
\* C29: zero_stepper on a ready motor (initialized and energized).  Called
\* while the stepper is MOVING or WAITING it first stops the scan (the
\* division index is back at 0), and in every case it ends with the stepper
\* IDLE and both current_position and target_position equal to 0.
C29_ZeroOnReadyMotor ==
    [][(CallZeroStepper /\ stepper[1].initialized /\ stepper[1].energized) =>
          /\ stepper[1].scan_state # IDLE => stepper'[1].current_division = 0
          /\ stepper'[1].scan_state = IDLE
          /\ stepper'[1].current_position = 0
          /\ stepper'[1].target_position = 0]_vars

\* the Zero button was pressed during a scan that had left division 0 at a
\* position other than 0: the scan is stopped and the stepper stands at 0
C29_Witness ==
    /\ call.method = "zero_stepper"
    /\ call.run = "aborted"
    /\ stepper[1].initialized /\ stepper[1].energized
    /\ stepper[1].scan_state = IDLE
    /\ stepper[1].current_division = 0
    /\ stepper[1].current_position = 0
    /\ stepper[1].target_position = 0
    /\ \E i \in 1..Len(scan_manager_queue) :
           /\ scan_manager_queue[i].stepper_num = 1
           /\ scan_manager_queue[i].scan_state = WAITING
           /\ scan_manager_queue[i].current_division = 1

-----------------------------------------------------------------------------
\* The motor of stepper 1 cannot carry out a move.
MotorNotReady == ~stepper[1].energized \/ ~stepper[1].initialized

\* C31: unconfirmed moves never advance counters.  When the sequencer
\* commands a stepper whose motor is not energized or not initialized
\* (continue_scan, or the reset to division 0 through move_to_position), the
\* stepper's division index is unchanged.
C31_UnconfirmedMoves ==
    [][((CallContinueScan \/ CallMoveStepper) /\ MotorNotReady) =>
          stepper'[1].current_division = stepper[1].current_division]_vars

\* the sequencer's reset was called on a de-energized stepper that waited at
\* division 1: the index is 0, the stepper still WAITING with the target of
\* division 1
C31_Witness ==
    /\ call.method = "move_stepper"
    /\ call.run = "running"
    /\ MotorNotReady
    /\ stepper[1].scan_state = WAITING
    /\ stepper[1].current_division = 0
    /\ stepper[1].target_position = get_division_positions(stepper[1])[2]
    /\ stepper[1].target_position # get_division_positions(stepper[1])[1]

-----------------------------------------------------------------------------
\* The step is an explicit stop of stepper 1: the Stop button (emergency_stop
\* makes the same stop_scan call) or the Zero button.
ExplicitStop == CallStopScan \/ CallZeroStepper

\* C32: state ordering.  Apart from an explicit stop no stepper goes from
\* MOVING directly to IDLE: every other transition into IDLE is taken from
\* WAITING, and every entry into WAITING is taken from MOVING.
C32_StateOrdering ==
    [][/\ (stepper[1].scan_state = MOVING /\ stepper'[1].scan_state = IDLE) =>
              ExplicitStop
       /\ (stepper[1].scan_state # IDLE /\ stepper'[1].scan_state = IDLE
              /\ ~ExplicitStop) =>
              stepper[1].scan_state = WAITING
       /\ (stepper[1].scan_state # WAITING /\ stepper'[1].scan_state = WAITING) =>
              stepper[1].scan_state = MOVING]_vars

\* continue_scan has ended a scan: the stepper went from its last division,
\* where it was WAITING, to IDLE
C32_Witness ==
    /\ call.method = "continue_scan"
    /\ call.run = "done"
    /\ stepper[1].scan_state = IDLE

-----------------------------------------------------------------------------
\* Stepper "self" is in a scan, at a division of its position sequence and
\* with that division's position as its target.
OnItsDivision(self) ==
    LET positions == get_division_positions(self)
    IN  /\ 0 <= self.current_division
        /\ self.current_division < Len(positions)
        /\ self.target_position = positions[self.current_division + 1]

\* C35: index/target invariant.  With an unchanged configuration, whenever a
\* stepper is MOVING or WAITING after start_scan, continue_scan or the
\* sequencer's reset, 0 <= current_division < len(positions) and
\* target_position = positions[current_division].
C35_IndexTargetInvariant ==
    \A n \in Steppers :
        stepper[n].scan_state \in {MOVING, WAITING} => OnItsDivision(stepper[n])

\* the sequencer's reset has left a stepper WAITING with index 0 and the
\* target of division 1
C35_Witness ==
    /\ call.method = "move_stepper"
    /\ stepper[1].scan_state = WAITING
    /\ stepper[1].current_division = 0
    /\ stepper[1].current_position = stepper[1].target_position
    /\ ~OnItsDivision(stepper[1])

-----------------------------------------------------------------------------
(* Properties of the position inputs (checked under SpecInputs) *)

\* C28: the configuration is frozen during a scan.  While the stepper is not
\* IDLE, a change of min_position, max_position or divisions that reaches it
\* is rejected: the three values stay as they are, so continue_scan computes
\* the position sequence the scan started with.
C28_ConfigurationFrozen ==
    [][stepper[1].scan_state # IDLE =>
          /\ stepper'[1].min_position = stepper[1].min_position
          /\ stepper'[1].max_position = stepper[1].max_position
          /\ stepper'[1].divisions = stepper[1].divisions
          /\ get_division_positions(stepper'[1]) = get_division_positions(stepper[1])]_vars

\* on_input_changed has just set divisions to 3 on a stepper that is MOVING
\* in a scan started with divisions 2
C28_Witness ==
    /\ call.method = "on_input_changed"
    /\ call.run = "running"
    /\ stepper[1].scan_state = MOVING
    /\ stepper[1].divisions = 3
    /\ stepper[1].min_position = MinPos

-----------------------------------------------------------------------------
(* is_position_reached on free inputs *)

\* target positions explored by SpecReached
ReachedTargets == {-100, -20, -1, 0, 1, 19, 20, 39, 40, 100}
\* current_position is explored up to this far on either side of the target
ReachedSpread == 7

InitReached ==
    /\ \E t \in ReachedTargets, d \in -ReachedSpread..ReachedSpread,
          e \in BOOLEAN, i \in BOOLEAN :
           stepper = [n \in Steppers |->
                        IF n = 1
                        THEN [ReadyStepper(1, 2) EXCEPT !.current_position = t + d,
                                                        !.tic_position = t + d,
                                                        !.target_position = t,
                                                        !.tic_target = t,
                                                        !.energized = e,
                                                        !.initialized = i]
                        ELSE ReadyStepper(n, 2)]
    /\ scanning = FALSE
    /\ stepper_statuses = [n \in Steppers |-> NoStatus]
    /\ start_disabled = FALSE
    /\ scan_manager_queue = <<>>
    /\ pq_running = FALSE
    /\ camera_photo_queue = NoPhotos
    /\ coverage = NoCoverage
    /\ scan_complete = FALSE
    /\ scans_started = 0
    /\ pf = PfIdle
    /\ call = NoCall

CallIsPositionReached ==
    /\ ~pq_running
    /\ call' = [method |-> "is_position_reached",
                result |-> is_position_reached(stepper[1]), run |-> call.run]
    /\ UNCHANGED <<stepper, scanning, stepper_statuses, start_disabled,
                   scan_manager_queue, pq_running, camera_photo_queue, coverage,
                   scan_complete, scans_started, pf>>

NextReached == CallIsPositionReached

SpecReached == InitReached /\ [][NextReached]_vars

-----------------------------------------------------------------------------
(* Properties of is_position_reached (checked under SpecReached) *)

\* C14 as stated: arrival predicate.  For an energized motor the position is
\* reached exactly when |current - target| <= 0.05 * |target|: with target 100,
\* 96 is reached and 94 is not, and with target 0 only current = 0 is reached.
C14_ArrivalEnergized ==
    (/\ call.method = "is_position_reached"
     /\ stepper[1].energized) =>
        /\ call.result <=> WithinTolerance(stepper[1])
        /\ (stepper[1].target_position = 100 /\ stepper[1].current_position = 96)
               => call.result
        /\ (stepper[1].target_position = 100 /\ stepper[1].current_position = 94)
               => ~call.result
        /\ stepper[1].target_position = 0
               => (call.result <=> stepper[1].current_position = 0)

\* C14 as amended: the same for a motor that is energized and connected
\* (initialized, so that self.tic is set); without a connection the position
\* is never reached.
C14_ArrivalPredicate ==
    /\ (/\ call.method = "is_position_reached"
        /\ stepper[1].energized /\ stepper[1].initialized) =>
           /\ call.result <=> WithinTolerance(stepper[1])
           /\ (stepper[1].target_position = 100 /\ stepper[1].current_position = 96)
                  => call.result
           /\ (stepper[1].target_position = 100 /\ stepper[1].current_position = 94)
                  => ~call.result
           /\ stepper[1].target_position = 0
                  => (call.result <=> stepper[1].current_position = 0)
    /\ (call.method = "is_position_reached" /\ ~stepper[1].initialized)
           => ~call.result

\* the predicate has answered "reached" for 96 against a target of 100
C14_Witness ==
    /\ call.method = "is_position_reached"
    /\ call.result
    /\ stepper[1].target_position = 100
    /\ stepper[1].current_position = 96

====
